---- MODULE Spec2Model ----
(***************************************************************************)
(* The ITRE message decoder (src/decoder.rs): String::decode_from,         *)
(* Emo::decode_from and Message::decode_from over one BytesMut cursor.     *)
(*                                                                         *)
(* The recursive descent is modelled with an explicit call stack.  Every   *)
(* frame is one activation of Message::decode_from; the calls of           *)
(* String::decode_from and Emo::decode_from are positions of that frame.   *)
(* A Rust panic (index out of range, unwrap of an Err, panic!) unwinds the *)
(* whole decode at once: nothing in the code catches it.                   *)
(***************************************************************************)
EXTENDS Integers, Sequences, FiniteSets, TLC

VARIABLES
    input,   \* the buffer as handed to the top-level decode
    sent,    \* what the sender encoded into it (a wire tree), or RawW
    buf,     \* the BytesMut view: the bytes not yet consumed
    stack,   \* activations of Message::decode_from, innermost last
    ret,     \* the Result the last returning activation handed back
    panic    \* "" or the kind of the panic that ended the decode

vars == <<input, sent, buf, stack, ret, panic>>

----------------------------------------------------------------------------
(* consts (the module is not among the sources).  The tag and emoticon     *)
(* codes the tests use are taken from the tests; the others are            *)
(* parameters: the overflow sentinels are the all-ones values and the two  *)
(* slice maxima are scaled down to 2.                                      *)

MESSAGE_TYPE_CODE_NOP == 252
MESSAGE_TYPE_CODE_TEXT == 128
MESSAGE_TYPE_CODE_EMO == 130
MESSAGE_TYPE_CODE_IMAGE == 129
MESSAGE_TYPE_CODE_COMPOUND == 250
MESSAGE_EMO_CODE_NOP == 0
MESSAGE_EMO_CODE_LAUGH == 1
MESSAGE_EMO_CODE_CRY == 2
TEXT_OVERFLOW_FLAG == 65535
TEXT_SLICE_MAX_LENGTH_S == 2
COMPOUND_OVERFLOW_FLAG == 255
COMPOUND_SLICE_MAX_LENGTH_S == 2

TypeCodes ==
    {MESSAGE_TYPE_CODE_NOP, MESSAGE_TYPE_CODE_TEXT, MESSAGE_TYPE_CODE_EMO,
     MESSAGE_TYPE_CODE_IMAGE, MESSAGE_TYPE_CODE_COMPOUND}

EmoCodes == {MESSAGE_EMO_CODE_NOP, MESSAGE_EMO_CODE_LAUGH, MESSAGE_EMO_CODE_CRY}

----------------------------------------------------------------------------
(* Values: Message, Emo, Error, Result.  Records of one shape each.        *)

Msg(type, text, emo, msgs) ==
    [type |-> type, text |-> text, emo |-> emo, msgs |-> msgs]

NoMsg == Msg("None", <<>>, "", <<>>)
MsgNop == Msg("Nop", <<>>, "", <<>>)
MsgText(s) == Msg("Text", s, "", <<>>)
MsgEmo(e) == Msg("Emo", <<>>, e, <<>>)
MsgCompound(ms) == Msg("Compound", <<>>, "", ms)

None == [kind |-> "None", msg |-> NoMsg, err |-> "", code |-> 0]
Ok(m) == [kind |-> "Ok", msg |-> m, err |-> "", code |-> 0]
Err(e, b) == [kind |-> "Err", msg |-> NoMsg, err |-> e, code |-> b]

InvalidTypeCode(b) == Err("InvalidTypeCode", b)
InvalidEmoCode(b) == Err("InvalidEmoCode", b)

----------------------------------------------------------------------------
(* The cursor.                                                             *)

\* seeded fault: the advance forgotten
AdvanceNone(b, n) == b

\* buf.advance(n): drop the first n bytes of the view
Advance(b, n) == SubSeq(b, n + 1, Len(b))

\* BigEndian::read_u16(&buf[0..2])
ReadU16(b) == b[1] * 256 + b[2]

\* str::from_utf8 accepts exactly the well-formed UTF-8 byte sequences
IsCont(b) == b \in 128..191

RECURSIVE Utf8From(_, _)
Utf8From(s, i) ==
    IF i > Len(s) THEN TRUE
    ELSE LET b == s[i]
             has(n) == i + n <= Len(s)
         IN  CASE b < 128 -> Utf8From(s, i + 1)
               [] b \in 194..223 ->
                    has(1) /\ IsCont(s[i + 1]) /\ Utf8From(s, i + 2)
               [] b = 224 ->
                    has(2) /\ s[i + 1] \in 160..191 /\ IsCont(s[i + 2])
                    /\ Utf8From(s, i + 3)
               [] b \in (225..236) \cup (238..239) ->
                    has(2) /\ IsCont(s[i + 1]) /\ IsCont(s[i + 2])
                    /\ Utf8From(s, i + 3)
               [] b = 237 ->
                    has(2) /\ s[i + 1] \in 128..159 /\ IsCont(s[i + 2])
                    /\ Utf8From(s, i + 3)
               [] b = 240 ->
                    has(3) /\ s[i + 1] \in 144..191 /\ IsCont(s[i + 2])
                    /\ IsCont(s[i + 3]) /\ Utf8From(s, i + 4)
               [] b \in 241..243 ->
                    has(3) /\ IsCont(s[i + 1]) /\ IsCont(s[i + 2])
                    /\ IsCont(s[i + 3]) /\ Utf8From(s, i + 4)
               [] b = 244 ->
                    has(3) /\ s[i + 1] \in 128..143 /\ IsCont(s[i + 2])
                    /\ IsCont(s[i + 3]) /\ Utf8From(s, i + 4)
               [] OTHER -> FALSE

FromUtf8Ok(s) == Utf8From(s, 1)

----------------------------------------------------------------------------
(* Activations.                                                            *)

Frame(pc, len, length, left, result, msgs) ==
    [pc |-> pc, len |-> len, length |-> length, left |-> left,
     result |-> result, msgs |-> msgs]

\* entry of Message::decode_from
NewFrame == Frame("tag", 0, 0, 0, <<>>, <<>>)

Top == stack[Len(stack)]
Pop == SubSeq(stack, 1, Len(stack) - 1)
SetTop(f) == [stack EXCEPT ![Len(stack)] = f]

Running == panic = "" /\ stack # <<>>
At(pc) == Running /\ Top.pc = pc

\* the decode returned to its caller
Returned == panic = "" /\ stack = <<>>
Terminated == panic # "" \/ stack = <<>>
Consumed == Len(input) - Len(buf)

\* a panic: the decode is over, nothing returns
Panics(kind, b) ==
    /\ panic' = kind
    /\ buf' = b
    /\ UNCHANGED <<input, sent, stack, ret>>

\* return r from the innermost activation
Returns(r, b) ==
    /\ stack' = Pop
    /\ ret' = r
    /\ buf' = b
    /\ UNCHANGED <<input, sent, panic>>

\* stay in the innermost activation
Goes(f, b) ==
    /\ stack' = SetTop(f)
    /\ buf' = b
    /\ UNCHANGED <<input, sent, ret, panic>>

----------------------------------------------------------------------------
(* Emo::decode_from                                                        *)

\* seeded fault: the Laugh and Cry arms exchanged
EmoOfSwapped(code) ==
    CASE code = MESSAGE_EMO_CODE_NOP -> Ok(MsgEmo("Nop"))
      [] code = MESSAGE_EMO_CODE_LAUGH -> Ok(MsgEmo("Cry"))
      [] code = MESSAGE_EMO_CODE_CRY -> Ok(MsgEmo("Laugh"))
      [] OTHER -> InvalidEmoCode(code)

\* the match on emo_code
EmoOf(code) ==
    CASE code = MESSAGE_EMO_CODE_NOP -> Ok(MsgEmo("Nop"))
      [] code = MESSAGE_EMO_CODE_LAUGH -> Ok(MsgEmo("Laugh"))
      [] code = MESSAGE_EMO_CODE_CRY -> Ok(MsgEmo("Cry"))
      [] OTHER -> InvalidEmoCode(code)

\* seeded fault: the code byte read and left in the buffer
EmoDecodeNoAdvance ==
    /\ At("emo")
    /\ IF buf = <<>>
       THEN Panics("IndexOutOfBounds", buf)
       ELSE Returns(EmoOf(buf[1]), buf)

\* Emo::decode_from and the Emo arm around it: Message::Emo(s) or the
\* error try! returns
EmoDecode ==
    /\ At("emo")
    /\ IF buf = <<>>
       THEN Panics("IndexOutOfBounds", buf)
       ELSE Returns(EmoOf(buf[1]), Advance(buf, 1))

----------------------------------------------------------------------------
(* String::decode_from                                                     *)

\* the head of the loop: the 2-byte length
TextReadLen ==
    /\ At("text_len")
    /\ IF Len(buf) < 2
       THEN Panics("IndexOutOfBounds", buf)
       ELSE Goes([Top EXCEPT !.pc = "text_slice", !.len = ReadU16(buf)],
                 Advance(buf, 2))

SliceLen(len) ==
    IF len = TEXT_OVERFLOW_FLAG THEN TEXT_SLICE_MAX_LENGTH_S ELSE len

\* the slice of either branch; an overflow slice loops, the other one
\* breaks and the Text arm returns Message::Text(s)
TextReadSlice ==
    /\ At("text_slice")
    /\ LET n == SliceLen(Top.len)
           slice == SubSeq(buf, 1, n)
       IN  IF Len(buf) < n
           THEN Panics("IndexOutOfBounds", buf)
           ELSE IF ~FromUtf8Ok(slice)
           THEN Panics("Utf8Error", Advance(buf, n))
           ELSE IF Top.len = TEXT_OVERFLOW_FLAG
           THEN Goes([Top EXCEPT !.pc = "text_len",
                                 !.result = Top.result \o slice],
                     Advance(buf, n))
           ELSE Returns(Ok(MsgText(Top.result \o slice)), Advance(buf, n))

----------------------------------------------------------------------------
(* Message::decode_from                                                    *)

\* seeded fault: a default arm that takes any other tag for Nop
UnknownTypeCodeAsNop(type_code, rest) == Returns(Ok(MsgNop), rest)

\* the last arm of the match: no type code
UnknownTypeCode(type_code, rest) == Returns(InvalidTypeCode(type_code), rest)

\* the tag byte and the match on it
ReadTypeCode ==
    /\ At("tag")
    /\ IF buf = <<>>
       THEN Panics("IndexOutOfBounds", buf)
       ELSE LET type_code == buf[1]
                rest == Advance(buf, 1)
            IN  CASE type_code = MESSAGE_TYPE_CODE_NOP ->
                       Returns(Ok(MsgNop), rest)
                  [] type_code = MESSAGE_TYPE_CODE_TEXT ->
                       Goes([Top EXCEPT !.pc = "text_len"], rest)
                  [] type_code = MESSAGE_TYPE_CODE_EMO ->
                       Goes([Top EXCEPT !.pc = "emo"], rest)
                  [] type_code = MESSAGE_TYPE_CODE_IMAGE ->
                       Panics("NotImplemented", rest)
                  [] type_code = MESSAGE_TYPE_CODE_COMPOUND ->
                       Goes([Top EXCEPT !.pc = "count"], rest)
                  [] OTHER -> UnknownTypeCode(type_code, rest)

ChunkLen(length) ==
    IF length = COMPOUND_OVERFLOW_FLAG THEN COMPOUND_SLICE_MAX_LENGTH_S
    ELSE length

\* the count byte of a chunk, the first one or the one after an overflow
\* chunk
CompoundReadCount ==
    /\ At("count")
    /\ IF buf = <<>>
       THEN Panics("IndexOutOfBounds", buf)
       ELSE Goes([Top EXCEPT !.pc = "loop", !.length = buf[1],
                             !.left = ChunkLen(buf[1])],
                 Advance(buf, 1))

\* one iteration of either for loop: Self::decode_from(buf)
CompoundCall ==
    /\ At("loop")
    /\ Top.left > 0
    /\ stack' = Append(SetTop([Top EXCEPT !.pc = "await",
                                          !.left = Top.left - 1]),
                       NewFrame)
    /\ UNCHANGED <<input, sent, buf, ret, panic>>

\* msgs.push of the message the call returned
CompoundPush ==
    /\ At("await")
    /\ ret.kind = "Ok"
    /\ stack' = SetTop([Top EXCEPT !.pc = "loop",
                                   !.msgs = Append(Top.msgs, ret.msg)])
    /\ ret' = None
    /\ UNCHANGED <<input, sent, buf, panic>>

\* seeded fault: the Err dropped and the loop carried on
TrySwallow ==
    /\ At("await")
    /\ ret.kind = "Err"
    /\ stack' = SetTop([Top EXCEPT !.pc = "loop"])
    /\ ret' = None
    /\ UNCHANGED <<input, sent, buf, panic>>

\* try! on an Err: return it
TryReturn ==
    /\ At("await")
    /\ ret.kind = "Err"
    /\ Returns(ret, buf)

\* an overflow chunk is done: back to the while condition
CompoundNextChunk ==
    /\ At("loop")
    /\ Top.left = 0
    /\ Top.length = COMPOUND_OVERFLOW_FLAG
    /\ Goes([Top EXCEPT !.pc = "count"], buf)

\* the last chunk is done
CompoundDone ==
    /\ At("loop")
    /\ Top.left = 0
    /\ Top.length # COMPOUND_OVERFLOW_FLAG
    /\ Returns(Ok(MsgCompound(Top.msgs)), buf)

----------------------------------------------------------------------------
(* The wire format, as the sender builds it.  A wire tree keeps the        *)
(* slices of a Text and the chunks of a Compound as they are laid out:     *)
(* every slice or chunk but the last is a full one, sent after the         *)
(* overflow sentinel; the last one is sent after its own length or count.  *)

WireTree(type, slices, emo, chunks) ==
    [type |-> type, slices |-> slices, emo |-> emo, chunks |-> chunks]

RawW == WireTree("Raw", <<>>, 0, <<>>)
NopW == WireTree("Nop", <<>>, 0, <<>>)
TextW(slices) == WireTree("Text", slices, 0, <<>>)
EmoW(code) == WireTree("Emo", <<>>, code, <<>>)
CompoundW(chunks) == WireTree("Compound", <<>>, 0, chunks)
\* a byte that is no type code where a message should start
BadW(code) == WireTree("Bad", <<>>, code, <<>>)

U16BE(n) == <<n \div 256, n % 256>>

RECURSIVE Flatten(_)
Flatten(ss) == IF ss = <<>> THEN <<>> ELSE Head(ss) \o Flatten(Tail(ss))

RECURSIVE TextField(_)
TextField(slices) ==
    IF Len(slices) = 1
    THEN U16BE(Len(slices[1])) \o slices[1]
    ELSE U16BE(TEXT_OVERFLOW_FLAG) \o slices[1] \o TextField(Tail(slices))

RECURSIVE Wire(_), WireAll(_), CompoundField(_)
Wire(w) ==
    CASE w.type = "Nop" -> <<MESSAGE_TYPE_CODE_NOP>>
      [] w.type = "Text" -> <<MESSAGE_TYPE_CODE_TEXT>> \o TextField(w.slices)
      [] w.type = "Emo" -> <<MESSAGE_TYPE_CODE_EMO, w.emo>>
      [] w.type = "Bad" -> <<w.emo>>
      [] w.type = "Compound" ->
           <<MESSAGE_TYPE_CODE_COMPOUND>> \o CompoundField(w.chunks)
      [] OTHER -> <<>>

WireAll(ws) == IF ws = <<>> THEN <<>> ELSE Wire(Head(ws)) \o WireAll(Tail(ws))

CompoundField(chunks) ==
    IF Len(chunks) = 1
    THEN <<Len(chunks[1])>> \o WireAll(chunks[1])
    ELSE <<COMPOUND_OVERFLOW_FLAG>> \o WireAll(chunks[1])
         \o CompoundField(Tail(chunks))

EmoName(code) ==
    CASE code = MESSAGE_EMO_CODE_NOP -> "Nop"
      [] code = MESSAGE_EMO_CODE_LAUGH -> "Laugh"
      [] code = MESSAGE_EMO_CODE_CRY -> "Cry"
      [] OTHER -> ""

\* the message a wire tree stands for
RECURSIVE MsgOf(_), MsgOfAll(_)
MsgOf(w) ==
    CASE w.type = "Nop" -> MsgNop
      [] w.type = "Text" -> MsgText(Flatten(w.slices))
      [] w.type = "Emo" -> MsgEmo(EmoName(w.emo))
      [] w.type = "Compound" -> MsgCompound(MsgOfAll(Flatten(w.chunks)))
      [] OTHER -> NoMsg

MsgOfAll(ws) ==
    IF ws = <<>> THEN <<>> ELSE <<MsgOf(Head(ws))>> \o MsgOfAll(Tail(ws))

\* the tree is the encoding of a message: known tags and emoticon codes
RECURSIVE WellFormed(_), WellFormedAll(_)
WellFormed(w) ==
    CASE w.type = "Nop" -> TRUE
      [] w.type = "Text" -> TRUE
      [] w.type = "Emo" -> w.emo \in EmoCodes
      [] w.type = "Compound" -> WellFormedAll(Flatten(w.chunks))
      [] OTHER -> FALSE

WellFormedAll(ws) ==
    IF ws = <<>> THEN TRUE ELSE WellFormed(Head(ws)) /\ WellFormedAll(Tail(ws))

\* every slice of every Text of the tree is well-formed UTF-8 on its own
RECURSIVE SlicesOk(_), SlicesOkAll(_)
SlicesOk(w) ==
    CASE w.type = "Text" -> \A i \in 1..Len(w.slices) : FromUtf8Ok(w.slices[i])
      [] w.type = "Compound" -> SlicesOkAll(Flatten(w.chunks))
      [] OTHER -> TRUE

SlicesOkAll(ws) ==
    IF ws = <<>> THEN TRUE ELSE SlicesOk(Head(ws)) /\ SlicesOkAll(Tail(ws))

\* every Text of the tree is a string: well-formed UTF-8 as a whole
RECURSIVE TextsOk(_), TextsOkAll(_)
TextsOk(w) ==
    CASE w.type = "Text" -> FromUtf8Ok(Flatten(w.slices))
      [] w.type = "Compound" -> TextsOkAll(Flatten(w.chunks))
      [] OTHER -> TRUE

TextsOkAll(ws) ==
    IF ws = <<>> THEN TRUE ELSE TextsOk(Head(ws)) /\ TextsOkAll(Tail(ws))

----------------------------------------------------------------------------
(* The buffers decoded.                                                    *)

MaxSlices == 2   \* full slices of a Text
MaxLast == 2     \* bytes of the last slice of a Text
MaxChunks == 1   \* full chunks of a Compound
MaxCount == 2    \* messages of the last chunk of a Compound
RawLen == 3      \* bytes of an arbitrary buffer

SeqsUpTo(S, n) == UNION {[1..k -> S] : k \in 0..n}

\* 'A', the continuation byte 0x80, the lead byte 0xC3 (0xC3 0x80 is U+00C0)
TextBytes == {65, 128, 195}

FullSlices == [1..TEXT_SLICE_MAX_LENGTH_S -> TextBytes]

TextWires ==
    {TextW(Append(full, last)) :
        full \in SeqsUpTo(FullSlices, MaxSlices),
        last \in SeqsUpTo(TextBytes, MaxLast)}

CompoundWires(E) ==
    {CompoundW(Append(full, last)) :
        full \in SeqsUpTo([1..COMPOUND_SLICE_MAX_LENGTH_S -> E], MaxChunks),
        last \in SeqsUpTo(E, MaxCount)}

TextA == TextW(<<<<65>>>>)
\* "A" and U+00C0 in a full slice and a last one: the character straddles
Straddle == TextW(<<<<65, 195>>, <<128>>>>)
Inner == CompoundW(<<<<NopW, EmoW(MESSAGE_EMO_CODE_CRY)>>, <<TextA>>>>)

Leaves == {EmoW(MESSAGE_EMO_CODE_LAUGH), TextA}
Nested == {NopW, Inner}

Wires ==
    {NopW} \cup {EmoW(c) : c \in EmoCodes} \cup TextWires
    \cup CompoundWires(Leaves) \cup CompoundWires(Nested)
    \cup {CompoundW(<<<<>>>>),
          CompoundW(<<<<CompoundW(<<<<>>>>), CompoundW(<<<<CompoundW(<<<<>>>>)>>>>)>>>>),
          CompoundW(<<<<NopW, Straddle>>>>),
          CompoundW(<<<<Straddle, NopW>>, <<TextA>>>>)}

\* messages with a bad byte inside
Broken ==
    {CompoundW(<<<<NopW, BadW(255)>>, <<NopW>>>>),
     CompoundW(<<<<TextA, EmoW(65), NopW>>>>),
     CompoundW(<<<<NopW, CompoundW(<<<<NopW, BadW(3)>>>>), NopW>>>>)}

\* what may follow the message in the buffer
Trailers == {<<>>, <<255, 0>>}

\* messages cut short
CutWires ==
    {TextW(<<<<65, 65>>, <<65>>>>), TextW(<<<<195, 128>>>>), Inner,
     CompoundW(<<<<EmoW(MESSAGE_EMO_CODE_NOP), CompoundW(<<<<TextA>>>>)>>>>)}

RawBytes == {0, 1, 2, 65, 128, 129, 130, 195, 250, 252, 255}

Init ==
    /\ \/ \E w \in Wires \cup Broken, t \in Trailers :
            sent = w /\ input = Wire(w) \o t
       \/ \E w \in CutWires : \E n \in 0..(Len(Wire(w)) - 1) :
            sent = w /\ input = SubSeq(Wire(w), 1, n)
       \/ \E r \in SeqsUpTo(RawBytes, RawLen) :
            sent = RawW /\ input = r
    /\ buf = input
    /\ stack = <<NewFrame>>
    /\ ret = None
    /\ panic = ""

Next ==
    \/ ReadTypeCode
    \/ TextReadLen
    \/ TextReadSlice
    \/ EmoDecode
    \/ CompoundReadCount
    \/ CompoundCall
    \/ CompoundPush
    \/ TryReturn
    \/ CompoundNextChunk
    \/ CompoundDone

Spec == Init /\ [][Next]_vars

\* the decode is one blocking call: it keeps running until it returns
FairSpec == Spec /\ WF_vars(Next)

----------------------------------------------------------------------------
(* What the buffer holds.                                                  *)

\* the buffer starts with the whole encoding of the message sent
Whole == WellFormed(sent) /\ Len(input) >= Len(Wire(sent))

\* the bytes after the encoding
Trailer == SubSeq(input, Len(Wire(sent)) + 1, Len(input))

\* a Text of full slices and a last one that holds a string
TextSent == Whole /\ sent.type = "Text" /\ TextsOk(sent)

\* a Compound whose Texts hold strings
CompoundSent == Whole /\ sent.type = "Compound" /\ TextsOk(sent)

----------------------------------------------------------------------------
(* Claims.                                                                 *)

\* C1: a Text field of k >= 0 full slices and a last slice that together
\* hold a string s decodes to exactly Text(s).
C1_TextDecodesToTheString ==
    (Terminated /\ TextSent) =>
        (Returned /\ ret = Ok(MsgText(Flatten(sent.slices))))

\* C1, where it holds: when every slice is well-formed UTF-8 on its own
C1_TextOfWholeSlices ==
    (Terminated /\ TextSent /\ SlicesOk(sent)) =>
        (Returned /\ ret = Ok(MsgText(Flatten(sent.slices))))

\* C2: a Compound of j >= 0 full chunks and a last chunk decodes to the
\* Compound of all its nested messages in wire order, nested Compounds
\* included.
C2_CompoundDecodesInOrder ==
    (Terminated /\ CompoundSent) => (Returned /\ ret = Ok(MsgOf(sent)))

\* C2, where it holds: when every Text slice inside is well-formed UTF-8
C2_CompoundOfWholeSlices ==
    (Terminated /\ CompoundSent /\ SlicesOk(sent)) =>
        (Returned /\ ret = Ok(MsgOf(sent)))

\* C3: the emoticon decoder maps the three codes to Nop, Laugh and Cry,
\* answers any other byte b with the invalid-emoticon-code error carrying
\* b, and consumes exactly one byte either way.
C3_EmoticonDecoder ==
    [][(At("emo") /\ buf # <<>>) =>
          LET b == buf[1]
          IN  /\ buf' = Tail(buf)
              /\ panic' = ""
              /\ b = MESSAGE_EMO_CODE_NOP => ret' = Ok(MsgEmo("Nop"))
              /\ b = MESSAGE_EMO_CODE_LAUGH => ret' = Ok(MsgEmo("Laugh"))
              /\ b = MESSAGE_EMO_CODE_CRY => ret' = Ok(MsgEmo("Cry"))
              /\ b \notin EmoCodes =>
                    ret' = [kind |-> "Err", msg |-> NoMsg,
                            err |-> "InvalidEmoCode", code |-> b]]_vars

C3_Witness ==
    /\ Returned
    /\ ret.kind = "Err" /\ ret.err = "InvalidEmoCode" /\ ret.code = 65
    /\ input[Consumed] = 65

\* C4: a tag byte t that is none of the five type codes, at the top or at
\* any position inside a Compound, makes the decode return the
\* invalid-type-code error carrying t: the error is handed up unchanged
\* through every enclosing Compound and no Message is returned.
C4_InvalidTypeCode ==
    [][/\ (At("tag") /\ buf # <<>> /\ buf[1] \notin TypeCodes) =>
             /\ ret' = [kind |-> "Err", msg |-> NoMsg,
                        err |-> "InvalidTypeCode", code |-> buf[1]]
             /\ panic' = ""
             /\ stack' = Pop
       /\ (Running /\ ret.kind = "Err" /\ ret.err = "InvalidTypeCode") =>
             /\ ret' = ret
             /\ panic' = ""
             /\ stack' = Pop]_vars

C4_Witness ==
    /\ Returned
    /\ sent = CompoundW(<<<<NopW, CompoundW(<<<<NopW, BadW(3)>>>>), NopW>>>>)
    /\ ret.kind = "Err" /\ ret.err = "InvalidTypeCode" /\ ret.code = 3

\* the bytes the step at hand asks the buffer for
Needs ==
    CASE Top.pc = "text_len" -> 2
      [] Top.pc = "text_slice" -> SliceLen(Top.len)
      [] Top.pc \in {"tag", "emo", "count"} -> 1
      [] OTHER -> 0

\* C5: a step that needs more bytes than remain yields a truncated-buffer
\* error returned to the caller.
C5_TruncatedBufferIsAnError ==
    [][(Running /\ Needs > Len(buf)) =>
          (panic' = "" /\ ret'.kind = "Err" /\ ret'.err = "TruncatedBuffer")]_vars

\* C6: the Image tag fails with an error value returned to the caller,
\* one that is not the invalid-type-code error.
C6_ImageIsAnError ==
    [][(At("tag") /\ buf # <<>> /\ buf[1] = MESSAGE_TYPE_CODE_IMAGE) =>
          (panic' = "" /\ ret'.kind = "Err" /\ ret'.err # "InvalidTypeCode")]_vars

\* C7: a Text slice that is not well-formed UTF-8 yields a
\* malformed-payload error returned to the caller.
C7_MalformedTextIsAnError ==
    [][(At("text_slice") /\ SliceLen(Top.len) <= Len(buf)
        /\ ~FromUtf8Ok(SubSeq(buf, 1, SliceLen(Top.len)))) =>
          (panic' = "" /\ ret'.kind = "Err" /\ ret'.err = "MalformedText")]_vars

\* every activation but the innermost waits for the call it made
CallersWait == \A i \in 1..(Len(stack) - 1) : stack[i].pc = "await"

\* C8: the first failure ends the whole decode.  An error a call returned
\* is returned by each enclosing activation in turn, unchanged, with no
\* byte consumed and no message pushed on the way; a panic stops
\* everything where it is.  No Ok result comes after either.
C8_FirstFailureIsTheResult ==
    /\ [](CallersWait /\ (ret.kind = "Err" /\ Running => Top.pc = "await"))
    /\ [][/\ (Running /\ ret.kind = "Err") =>
                (ret' = ret /\ buf' = buf /\ panic' = "" /\ stack' = Pop)
          /\ panic # "" => UNCHANGED vars]_vars

C8_Witness ==
    /\ Returned
    /\ sent = CompoundW(<<<<TextA, EmoW(65), NopW>>>>)
    /\ ret = InvalidEmoCode(65)
    /\ buf = <<MESSAGE_TYPE_CODE_NOP, 255, 0>>

IsSuffix(a, b) ==
    Len(a) <= Len(b) /\ a = SubSeq(b, Len(b) - Len(a) + 1, Len(b))

\* C9: the cursor only moves forward, and a successful decode leaves it
\* right after the message: 1 byte for Nop, 2 for Emo, the whole encoding
\* with all nested content in general, the bytes after it untouched.
C9_CursorForwardAndExact ==
    /\ [](IsSuffix(buf, input))
    /\ []((Returned /\ ret.kind = "Ok") =>
            /\ ret.msg.type = "Nop" => Consumed = 1
            /\ ret.msg.type = "Emo" => Consumed = 2
            /\ Whole => (Consumed = Len(Wire(sent)) /\ buf = Trailer))
    /\ [][IsSuffix(buf', buf)]_vars

C9_Witness ==
    /\ Returned /\ ret.kind = "Ok"
    /\ sent.type = "Compound" /\ Len(sent.chunks) = 2
    /\ sent.chunks[1][1].type = "Compound"
    /\ buf = <<255, 0>>

\* C10: the decode of a finite buffer ends.  The head of every iteration
\* of the slice loop takes 2 bytes, that of every iteration of the chunk
\* loop and every call 1 byte, so the calls in progress never outnumber
\* the bytes consumed.
C10_Terminates ==
    /\ <>Terminated
    /\ [](Len(stack) <= Consumed + 1 /\ Consumed <= Len(input))
    /\ [][/\ (At("text_len") /\ panic' = "") => Len(buf') = Len(buf) - 2
          /\ (At("count") /\ panic' = "") => Len(buf') = Len(buf) - 1
          /\ (At("tag") /\ panic' = "") => Len(buf') = Len(buf) - 1
          /\ Len(stack') > Len(stack) => stack'[Len(stack')].pc = "tag"]_vars

C10_Witness ==
    /\ Terminated
    /\ input = <<250, 255, 250>>
    /\ Len(stack) = 2 /\ Consumed = 3

====
